---------------------------- MODULE Spec2Model ----------------------------
(***************************************************************************)
(* Model of src/app/objectDetectionYOLO.py, class ObjectDetectorYOLO.      *)
(*                                                                         *)
(* The detector is an object holding the class catalog of the loaded model *)
(* (classNames).  Its operations are called one at a time (the program is  *)
(* single threaded); the state records the call in progress or last made   *)
(* (call), what it returned or raised (ret), and the locals of the one     *)
(* operation that is a loop over an external stream (analyseVideo).        *)
(*                                                                         *)
(* A detection result is modelled by result.boxes.cls, the sequence of the *)
(* class indices of its boxes; box i of the result is position i of the    *)
(* sequence.  A Python dict is a function whose DOMAIN is its key set; a   *)
(* failed dict lookup (KeyError) is the status "KeyError" of the outcome.  *)
(* An image is the sequence of the drawing calls made on it.               *)
(***************************************************************************)
EXTENDS Integers, Sequences, FiniteSets, TLC

VARIABLES classNames, call, ret, pc, pos, videoAnalysis, lastKey

vars == <<classNames, call, ret, pc, pos, videoAnalysis, lastKey>>

---------------------------------------------------------------------------
(* Bounds of the model *)

\* most boxes in a detection result passed to a single-frame operation
MaxBoxes == 3
\* most frame results in a result list
MaxFrames == 3
\* most frames in a video stream
MaxStream == 3
\* largest quantity in an inventory
MaxAmount == 2

---------------------------------------------------------------------------
(* Values *)

Names == {"pink-clip", "screw", "bolt"}

\* class indices a box may carry: two with a colour, one beyond the colour table
BoxClasses == {0, 1, 10}

\* class indices of the boxes in the frames of a result list
ListClasses == {0, 1}

\* model.names of the models a detector may be built from: in the first,
\* class 10 has no entry; in the second, classes 0 and 1 share a name.
Catalogs ==
    { (0 :> "pink-clip") @@ (1 :> "screw"),
      (0 :> "screw") @@ (1 :> "screw") @@ (10 :> "bolt") }

\* ObjectDetectorYOLO.COLORS
COLORS ==
    (0 :> <<203, 192, 255>>) @@ (1 :> <<255, 255, 0>>) @@ (2 :> <<255, 0, 255>>) @@
    (3 :> <<0, 255, 255>>) @@ (4 :> <<0, 165, 255>>) @@ (5 :> <<0, 255, 0>>) @@
    (6 :> <<0, 0, 255>>) @@ (7 :> <<255, 0, 0>>) @@ (8 :> <<128, 0, 128>>) @@
    (9 :> <<42, 42, 165>>)

RECURSIVE SeqsUpTo(_, _)
SeqsUpTo(S, n) ==
    IF n = 0 THEN {<<>>}
    ELSE LET shorter == SeqsUpTo(S, n - 1)
         IN  shorter \cup {Append(s, x) : s \in {t \in shorter : Len(t) = n - 1}, x \in S}

\* detection results (result.boxes.cls) given to the single-frame operations
Results == SeqsUpTo(BoxClasses, MaxBoxes)

\* the frame results of a result list: no box, or one box
ListResults == {<<>>} \cup {<<c>> : c \in ListClasses}

\* result lists, as analyseVideo returns them
ResultLists == SeqsUpTo(ListResults, MaxFrames)

\* inventories of detected items: class name -> quantity
Inventories == UNION {[D -> 0..MaxAmount] : D \in SUBSET Names}

\* inventories of needed items
NeededNames == {"screw", "bolt"}

NeededInventories == UNION {[D -> 0..MaxAmount] : D \in SUBSET NeededNames}

\* video streams: per frame, whether model.predict returns or raises on it
Streams == SeqsUpTo([ts : 1..MaxStream, predictOk : BOOLEAN], MaxStream)

Footages == {s \in Streams : \A i \in 1..Len(s) : s[i].ts = i}

Keys == {"q", "other"}

---------------------------------------------------------------------------
(* Python dict *)

EmptyDict == [k \in {} |-> 0]

\* d[k] = v
DictSet(d, k, v) == [x \in (DOMAIN d) \cup {k} |-> IF x = k THEN v ELSE d[x]]

RECURSIVE SumValues(_, _)
SumValues(d, keys) ==
    IF keys = {} THEN 0
    ELSE LET k == CHOOSE x \in keys : TRUE
         IN  d[k] + SumValues(d, keys \ {k})

\* sum(d.values())
Sum(d) == SumValues(d, DOMAIN d)

---------------------------------------------------------------------------
(* count *)

\* the body of count's loop with the increment lost
countStepNoIncrement(countDict, className) == DictSet(countDict, className, 1)

\* the body of count's loop, for a class name already resolved
countStep(countDict, className) ==
    IF className \in DOMAIN countDict
    THEN DictSet(countDict, className, countDict[className] + 1)
    ELSE DictSet(countDict, className, 1)

RECURSIVE countLoop(_, _, _, _)
countLoop(names, detectedObjects, i, countDict) ==
    IF i > Len(detectedObjects) THEN [status |-> "ok", value |-> countDict]
    ELSE IF detectedObjects[i] \notin DOMAIN names THEN [status |-> "KeyError"]
    ELSE countLoop(names, detectedObjects, i + 1,
                   countStep(countDict, names[detectedObjects[i]]))

count(names, analysis) == countLoop(names, analysis, 1, EmptyDict)

---------------------------------------------------------------------------
(* checkCorrectItems *)

\* the body of checkCorrectItems' loop with the except branch doing nothing
checkItemIgnoreAbsent(currentItems, neededItems, missingItems, item) ==
    IF item \notin DOMAIN currentItems THEN missingItems
    ELSE IF currentItems[item] < neededItems[item]
         THEN DictSet(missingItems, item, neededItems[item] - currentItems[item])
         ELSE missingItems

\* the body of checkCorrectItems' loop: currentItems[item] raises KeyError for
\* an item currentItems does not hold, and the except branch stores the full need
checkItem(currentItems, neededItems, missingItems, item) ==
    IF item \notin DOMAIN currentItems
    THEN DictSet(missingItems, item, neededItems[item])
    ELSE IF currentItems[item] < neededItems[item]
         THEN DictSet(missingItems, item, neededItems[item] - currentItems[item])
         ELSE missingItems

RECURSIVE checkItemsLoop(_, _, _, _)
checkItemsLoop(currentItems, neededItems, items, missingItems) ==
    IF items = {} THEN missingItems
    ELSE LET item == CHOOSE x \in items : TRUE
         IN  checkItemsLoop(currentItems, neededItems, items \ {item},
                            checkItem(currentItems, neededItems, missingItems, item))

\* returns missingItems, bool(missingItems)
checkCorrectItems(currentItems, neededItems) ==
    LET missingItems == checkItemsLoop(currentItems, neededItems,
                                       DOMAIN neededItems, EmptyDict)
    IN  [status |-> "ok", missingItems |-> missingItems,
         isDeficient |-> (DOMAIN missingItems # {})]

---------------------------------------------------------------------------
(* checkEmpty *)

\* the body of checkEmpty's loop appending the position counted from 1
checkEmptyStepOneBased(frameStamps, index, analysis) ==
    IF Len(analysis) = 0 THEN Append(frameStamps, index + 1) ELSE frameStamps

\* the body of checkEmpty's loop; index is enumerate's index, counted from 0
checkEmptyStep(frameStamps, index, analysis) ==
    IF Len(analysis) = 0 THEN Append(frameStamps, index) ELSE frameStamps

RECURSIVE checkEmptyLoop(_, _, _)
checkEmptyLoop(resultList, index, frameStamps) ==
    IF index >= Len(resultList) THEN frameStamps
    ELSE checkEmptyLoop(resultList, index + 1,
                        checkEmptyStep(frameStamps, index, resultList[index + 1]))

checkEmpty(resultList) ==
    [status |-> "ok", frameStamps |-> checkEmptyLoop(resultList, 0, <<>>)]

---------------------------------------------------------------------------
(* Drawing.  An image is the sequence of the cv calls that drew on it; box is
   the position of the box the call belongs to, 0 for a banner at a fixed
   place; text is the sequence of the pieces of the string drawn. *)

Line(i, color) == [color |-> color, fn |-> "line", box |-> i, text |-> <<>>]

PutText(i, text, color) == [color |-> color, fn |-> "putText", box |-> i, text |-> text]

\* the frame handed to the drawing operations: nothing drawn on it yet
Frame == <<>>

---------------------------------------------------------------------------
(* visualiseSpecificItem *)

\* the body of visualiseSpecificItem's loop with found set for any box
visualiseItemStepFoundAny(st, i, className, itemName) ==
    IF className = itemName
    THEN [found |-> TRUE,
          image |-> st.image \o <<Line(i, <<0, 255, 0>>), Line(i, <<0, 255, 0>>),
                                  PutText(i, <<className>>, <<0, 255, 0>>)>>]
    ELSE [found |-> TRUE, image |-> st.image]

\* the body of visualiseSpecificItem's loop, for a class name already resolved
visualiseItemStep(st, i, className, itemName) ==
    IF className = itemName
    THEN [found |-> TRUE,
          image |-> st.image \o <<Line(i, <<0, 255, 0>>), Line(i, <<0, 255, 0>>),
                                  PutText(i, <<className>>, <<0, 255, 0>>)>>]
    ELSE st

RECURSIVE visualiseItemLoop(_, _, _, _, _)
visualiseItemLoop(names, cls, itemName, i, st) ==
    IF i > Len(cls) THEN [status |-> "ok", found |-> st.found, image |-> st.image]
    ELSE IF cls[i] \notin DOMAIN names
         THEN [status |-> "KeyError", found |-> st.found, image |-> st.image]
    ELSE visualiseItemLoop(names, cls, itemName, i + 1,
                           visualiseItemStep(st, i, names[cls[i]], itemName))

\* annotated_image = frame: the frame itself is drawn on
visualiseSpecificItem(names, frame, analysis, itemName) ==
    LET r == visualiseItemLoop(names, analysis, itemName, 1,
                               [found |-> FALSE, image |-> frame])
    IN  IF r.status # "ok" THEN r
        ELSE IF r.found
             THEN [r EXCEPT !.image = Append(r.image,
                     PutText(0, <<"Object Detection: ", itemName, " found">>, <<0, 0, 0>>))]
             ELSE [r EXCEPT !.image = Append(r.image,
                     PutText(0, <<"Object Detection: ", itemName, " not found">>, <<0, 0, 0>>))]

---------------------------------------------------------------------------
(* visualiseAll *)

\* the body of visualiseAll's loop, for a colour and class name already looked up
visualiseAllStep(image, i, color, className) ==
    image \o <<PutText(i, <<className>>, color), Line(i, color), Line(i, color)>>

RECURSIVE visualiseAllLoop(_, _, _, _)
visualiseAllLoop(names, cls, i, image) ==
    IF i > Len(cls) THEN [status |-> "ok", image |-> image]
    ELSE IF cls[i] \notin DOMAIN COLORS THEN [status |-> "KeyError"]
    ELSE IF cls[i] \notin DOMAIN names THEN [status |-> "KeyError"]
    ELSE visualiseAllLoop(names, cls, i + 1,
                          visualiseAllStep(image, i, COLORS[cls[i]], names[cls[i]]))

\* annotated_image = np.copy(frame): a failure leaves no image behind
visualiseAll(names, frame, analysis) ==
    LET drawn == visualiseAllLoop(names, analysis, 1, frame)
        items == count(names, analysis)
    IN  IF drawn.status # "ok" THEN [status |-> drawn.status]
        ELSE IF items.status # "ok" THEN [status |-> items.status]
        ELSE LET total == Sum(items.value)
             IN  [status |-> "ok",
                  count  |-> total,
                  items  |-> items.value,
                  image  |-> drawn.image \o
                      <<PutText(0, <<"Performing Object Detection">>, <<0, 0, 0>>),
                        PutText(0, <<"Items found: ", ToString(total)>>, <<0, 0, 0>>)>>]

---------------------------------------------------------------------------
(* saveObjectLocations *)

\* legendItems.add(item) keeping one entry per class name
legendAddByName(legendItems, item) ==
    IF \E e \in legendItems : e[2] = item[2] THEN legendItems
    ELSE legendItems \cup {item}

\* legendItems.add(item), item = (color, className)
legendAdd(legendItems, item) == legendItems \cup {item}

RECURSIVE saveLocationsLoop(_, _, _, _)
saveLocationsLoop(names, cls, i, st) ==
    IF i > Len(cls) THEN [status |-> "ok", legendItems |-> st.legendItems, blank |-> st.blank]
    ELSE IF cls[i] \notin DOMAIN COLORS THEN [status |-> "KeyError"]
    ELSE IF cls[i] \notin DOMAIN names THEN [status |-> "KeyError"]
    ELSE LET color == COLORS[cls[i]]
             className == names[cls[i]]
         IN  saveLocationsLoop(names, cls, i + 1,
                 [legendItems |-> legendAdd(st.legendItems, <<color, className>>),
                  blank |-> st.blank \o <<Line(i, color), Line(i, color)>>])

\* the orders in which a set may be iterated
Enumerations(S) ==
    {s \in [1..Cardinality(S) -> S] : \A i, j \in 1..Cardinality(S) : s[i] = s[j] => i = j}

\* the legend loop: row i (from 0) of the iteration is drawn at y = 10 + i * 14
legendRows(order) ==
    [r \in 1..Len(order) |->
        [color |-> order[r][1], y |-> 10 + (r - 1) * 14, name |-> order[r][2]]]

\* order: the order in which enumerate(legendItems) yields the set's members
saveObjectLocations(names, analysis, order) ==
    LET r == saveLocationsLoop(names, analysis, 1, [legendItems |-> {}, blank |-> <<>>])
    IN  IF r.status # "ok" THEN r
        ELSE [status |-> "ok", blank |-> r.blank, legend |-> legendRows(order)]

\* the orders enumerate(legendItems) may take for a result
legendOrders(names, analysis) ==
    LET r == saveLocationsLoop(names, analysis, 1, [legendItems |-> {}, blank |-> <<>>])
    IN  IF r.status # "ok" THEN {<<>>} ELSE Enumerations(r.legendItems)

---------------------------------------------------------------------------
(* updateSpecificItemFrames *)

\* self.visualiseSpecificItem(analysis, itemName): the method is declared with
\* the parameters (frame, analysis, itemName), so a call that passes two
\* arguments raises TypeError before the method's body runs
visualiseSpecificItemTwoArgs(names, analysis, itemName) ==
    [status |-> "TypeError", found |-> FALSE, image |-> <<>>]

\* the body of updateSpecificItemFrames' loop after the call: st holds
\* prevItemFound and count
updateItemStep(st, curItemFound) ==
    [count |-> IF curItemFound # TRUE /\ st.prevItemFound # TRUE
               THEN st.count + 1 ELSE st.count,
     prevItemFound |-> curItemFound]

RECURSIVE updateItemLoop(_, _, _, _, _)
updateItemLoop(names, resultList, itemName, i, st) ==
    IF i > Len(resultList) THEN [status |-> "ok", count |-> st.count]
    ELSE LET r == visualiseSpecificItemTwoArgs(names, resultList[i], itemName)
         IN  IF r.status # "ok" THEN [status |-> r.status, count |-> st.count]
             ELSE updateItemLoop(names, resultList, itemName, i + 1,
                                 updateItemStep(st, r.found))

updateSpecificItemFrames(names, resultList, itemName) ==
    updateItemLoop(names, resultList, itemName, 1,
                   [count |-> 0, prevItemFound |-> FALSE])

---------------------------------------------------------------------------
(* The detector *)

NoCall == [op |-> "none"]

NoReturn == [status |-> "none"]

\* __init__: the catalog is the loaded model's names; nothing has been called
Init ==
    /\ classNames \in Catalogs
    /\ call = NoCall
    /\ ret = NoReturn
    /\ pc = "idle"
    /\ pos = 0
    /\ videoAnalysis = <<>>
    /\ lastKey = "none"

\* a call of an operation that runs to its end in one step; analyseVideo's
\* locals do not outlive its call
Returns(c, r) ==
    /\ pc # "running"
    /\ call' = c
    /\ ret' = r
    /\ pc' = "idle"
    /\ pos' = 0
    /\ videoAnalysis' = <<>>
    /\ lastKey' = "none"
    /\ UNCHANGED classNames

Call_count ==
    \E analysis \in Results :
        Returns([analysis |-> analysis, op |-> "count"], count(classNames, analysis))

Call_checkCorrectItems ==
    \E currentItems \in Inventories, neededItems \in NeededInventories :
        Returns([currentItems |-> currentItems, neededItems |-> neededItems,
                 op |-> "checkCorrectItems"],
                checkCorrectItems(currentItems, neededItems))

Call_checkEmpty ==
    \E resultList \in ResultLists :
        Returns([resultList |-> resultList, op |-> "checkEmpty"], checkEmpty(resultList))

Call_visualiseSpecificItem ==
    \E analysis \in Results, itemName \in Names :
        Returns([analysis |-> analysis, itemName |-> itemName,
                 op |-> "visualiseSpecificItem"],
                visualiseSpecificItem(classNames, Frame, analysis, itemName))

Call_visualiseAll ==
    \E analysis \in Results :
        Returns([analysis |-> analysis, op |-> "visualiseAll"],
                visualiseAll(classNames, Frame, analysis))

Call_saveObjectLocations ==
    \E analysis \in Results :
        \E order \in legendOrders(classNames, analysis) :
            Returns([analysis |-> analysis, op |-> "saveObjectLocations"],
                    saveObjectLocations(classNames, analysis, order))

Call_updateSpecificItemFrames ==
    \E resultList \in ResultLists, itemName \in Names :
        Returns([resultList |-> resultList, itemName |-> itemName,
                 op |-> "updateSpecificItemFrames"],
                updateSpecificItemFrames(classNames, resultList, itemName))

---------------------------------------------------------------------------
(* analyseVideo: one action per way through the body of its while loop.
   pos is the number of frames footage.read() has handed out, lastKey what
   the last cv.waitKey(1) returned. *)

\* Result(timeStamp, result[0])
Result(frame) == [timeStamp |-> frame.ts]

\* footage = cv.VideoCapture(videoName); videoAnalysis = []
analyseVideoStart ==
    /\ pc # "running"
    /\ \E footage \in Footages : call' = [op |-> "analyseVideo", footage |-> footage]
    /\ ret' = NoReturn
    /\ pc' = "running"
    /\ pos' = 0
    /\ videoAnalysis' = <<>>
    /\ lastKey' = "none"
    /\ UNCHANGED classNames

\* ret is true and detect returns: the result is appended, then the key is
\* polled and 'q' leaves the loop
analyseVideoFrame ==
    /\ pc = "running"
    /\ pos < Len(call.footage)
    /\ call.footage[pos + 1].predictOk
    /\ pos' = pos + 1
    /\ videoAnalysis' = Append(videoAnalysis, Result(call.footage[pos + 1]))
    /\ \E key \in Keys :
        /\ lastKey' = key
        /\ IF key = "q"
           THEN pc' = "done" /\ ret' = [videoAnalysis |-> videoAnalysis', status |-> "ok"]
           ELSE pc' = "running" /\ ret' = ret
    /\ UNCHANGED <<classNames, call>>

\* the handler of a failed detect going on with the next frame
analyseVideoExceptContinue ==
    /\ pc = "running"
    /\ pos < Len(call.footage)
    /\ ~call.footage[pos + 1].predictOk
    /\ pos' = pos + 1
    /\ UNCHANGED <<classNames, call, ret, pc, videoAnalysis, lastKey>>

\* ret is true and detect raises: except: break
analyseVideoExcept ==
    /\ pc = "running"
    /\ pos < Len(call.footage)
    /\ ~call.footage[pos + 1].predictOk
    /\ pos' = pos + 1
    /\ pc' = "done"
    /\ ret' = [videoAnalysis |-> videoAnalysis, status |-> "ok"]
    /\ UNCHANGED <<classNames, call, videoAnalysis, lastKey>>

\* the stream has ended: ret is false, and 'not ret' leaves the loop without
\* polling the key
analyseVideoEnd ==
    /\ pc = "running"
    /\ pos >= Len(call.footage)
    /\ pc' = "done"
    /\ ret' = [videoAnalysis |-> videoAnalysis, status |-> "ok"]
    /\ UNCHANGED <<classNames, call, pos, videoAnalysis, lastKey>>

Next ==
    \/ Call_count
    \/ Call_checkCorrectItems
    \/ Call_checkEmpty
    \/ Call_visualiseSpecificItem
    \/ Call_visualiseAll
    \/ Call_saveObjectLocations
    \/ Call_updateSpecificItemFrames
    \/ analyseVideoStart
    \/ analyseVideoFrame
    \/ analyseVideoExcept
    \/ analyseVideoEnd

Spec == Init /\ [][Next]_vars

---------------------------------------------------------------------------
(* What the properties speak of *)

\* the boxes of a result
Boxes(cls) == 1..Len(cls)

\* every class index of the result has a catalog entry
AllKnown(cls) == \A i \in Boxes(cls) : cls[i] \in DOMAIN classNames

\* box i of the result resolves to the class name n
ResolvesTo(cls, i, n) == cls[i] \in DOMAIN classNames /\ classNames[cls[i]] = n

\* the quantity an inventory holds of k: zero when it has no entry for k
Held(inventory, k) == IF k \in DOMAIN inventory THEN inventory[k] ELSE 0

\* the members of a sequence
Range(s) == {s[i] : i \in 1..Len(s)}

---------------------------------------------------------------------------
(* checkCorrectItems *)

\* C1: diffInventory returns an empty delta and isDeficient = false if and
\* only if, for every key of needed, the quantity current holds of it (zero
\* when current has no entry) is at least the quantity needed.
C1_EmptyDeltaIffNeedsMet ==
    call.op = "checkCorrectItems" =>
        ( (DOMAIN ret.missingItems = {} /\ ~ret.isDeficient)
          <=> \A k \in DOMAIN call.neededItems :
                  Held(call.currentItems, k) >= call.neededItems[k] )

\* C2: the delta has an entry k -> needed[k] for each key of needed absent
\* from current, an entry k -> needed[k] - current[k] for each key of needed
\* present in current with current[k] < needed[k], and no other entry;
\* isDeficient is true if and only if the delta is non-empty.
C2_DeltaEntries ==
    call.op = "checkCorrectItems" =>
        LET current == call.currentItems
            needed == call.neededItems
            delta == ret.missingItems
        IN  /\ ret.status = "ok"
            /\ DOMAIN delta =
                 {k \in DOMAIN needed :
                     k \notin DOMAIN current \/ current[k] < needed[k]}
            /\ \A k \in DOMAIN delta :
                 delta[k] = IF k \notin DOMAIN current THEN needed[k]
                            ELSE needed[k] - current[k]
            /\ ret.isDeficient <=> (DOMAIN delta # {})

\* C2's case: one needed key is absent from current, another is present and
\* short, and current holds a key that is not needed
C2_Witness ==
    /\ call.op = "checkCorrectItems"
    /\ \E k \in DOMAIN call.neededItems :
         k \notin DOMAIN call.currentItems /\ call.neededItems[k] > 0
    /\ \E k \in DOMAIN call.neededItems \cap DOMAIN call.currentItems :
         0 < call.currentItems[k] /\ call.currentItems[k] < call.neededItems[k]
    /\ (DOMAIN call.currentItems) \ (DOMAIN call.neededItems) # {}
    /\ ret.isDeficient
    /\ Cardinality(DOMAIN ret.missingItems) = 2

\* C6: every entry k -> d of the delta has 0 < d <= needed[k], and a key
\* whose need is met (a need of 0 included) is absent from the delta.
C6_PositiveShortfall ==
    call.op = "checkCorrectItems" =>
        /\ \A k \in DOMAIN ret.missingItems :
             ret.missingItems[k] > 0 /\ ret.missingItems[k] <= call.neededItems[k]
        /\ \A k \in DOMAIN call.neededItems :
             Held(call.currentItems, k) >= call.neededItems[k]
                => k \notin DOMAIN ret.missingItems

---------------------------------------------------------------------------
(* analyseVideo *)

\* the frames of the stream up to frame n on which inference succeeds
SucceededUpTo(footage, n) ==
    SelectSeq(SubSeq(footage, 1, n), LAMBDA f : f.predictOk)

\* C3, as claimed: a frame whose inference fails is skipped and the analysis
\* goes on; the returned list holds, in input order, one result for every
\* frame on which inference succeeded, up to the end of the stream or the
\* frame after which the user aborted.
C3_FailedFrameSkipped ==
    (call.op = "analyseVideo" /\ pc = "done") =>
        LET footage == call.footage
            last == IF lastKey = "q" THEN pos ELSE Len(footage)
            succeeded == SucceededUpTo(footage, last)
        IN  ret.videoAnalysis = [i \in 1..Len(succeeded) |-> Result(succeeded[i])]

\* C3, amended: the first frame whose inference fails ends the analysis; the
\* returned list holds, in input order, one result for each of the first n
\* frames of the stream, inference succeeded on all of them, and n is the
\* whole stream, or the frame after which the user aborted, or the frame
\* before the first one on which inference fails.
C3_FailedFrameEndsAnalysis ==
    (call.op = "analyseVideo" /\ pc = "done") =>
        LET footage == call.footage
            n == Len(ret.videoAnalysis)
        IN  /\ ret.status = "ok"
            /\ n <= Len(footage)
            /\ ret.videoAnalysis = [i \in 1..n |-> Result(footage[i])]
            /\ \A i \in 1..n : footage[i].predictOk
            /\ \/ n = Len(footage)
               \/ lastKey = "q" /\ pos = n
               \/ ~footage[n + 1].predictOk /\ pos = n + 1

\* C3's case: inference failed on a frame after some result was collected,
\* and a later frame on which inference would succeed has no result
C3_Witness ==
    /\ call.op = "analyseVideo"
    /\ pc = "done"
    /\ lastKey # "q"
    /\ Len(ret.videoAnalysis) >= 1
    /\ pos < Len(call.footage)
    /\ ~call.footage[pos].predictOk
    /\ call.footage[pos + 1].predictOk

---------------------------------------------------------------------------
(* count *)

\* the names the boxes of a result resolve to
NamesOf(cls) == {classNames[cls[i]] : i \in {j \in Boxes(cls) : cls[j] \in DOMAIN classNames}}

\* C4: when every class index has a catalog entry, countClasses maps each
\* class name to the number of boxes resolving to it, with no entry for a
\* name without a box, so the counts sum to the number of boxes and a result
\* without boxes gives the empty mapping; when some class index has no
\* catalog entry, the operation fails with an unknown-class error.
C4_CountPerName ==
    call.op = "count" =>
        IF AllKnown(call.analysis)
        THEN /\ ret.status = "ok"
             /\ DOMAIN ret.value = NamesOf(call.analysis)
             /\ \A n \in DOMAIN ret.value :
                  ret.value[n] =
                    Cardinality({i \in Boxes(call.analysis) : ResolvesTo(call.analysis, i, n)})
             /\ Sum(ret.value) = Len(call.analysis)
             /\ (Len(call.analysis) = 0 => DOMAIN ret.value = {})
        ELSE ret.status = "KeyError"

\* C4's case: two boxes resolve to one name and a third to another
C4_Witness ==
    /\ call.op = "count"
    /\ ret.status = "ok"
    /\ Cardinality(DOMAIN ret.value) = 2
    /\ \E n \in DOMAIN ret.value : ret.value[n] = 2

---------------------------------------------------------------------------
(* checkEmpty *)

\* C5: findEmptyFrames returns, in strictly increasing order and without
\* duplicates, exactly the indices (counted from 0) of the results of the
\* list that have no box.
C5_EmptyFrameIndices ==
    call.op = "checkEmpty" =>
        LET frameStamps == ret.frameStamps
            resultList == call.resultList
        IN  /\ \A i, j \in 1..Len(frameStamps) :
                 i < j => frameStamps[i] < frameStamps[j]
            /\ Range(frameStamps) =
                 {i \in 0..(Len(resultList) - 1) : Len(resultList[i + 1]) = 0}

\* C5's case: a frame with a box comes first, and two later frames are empty
C5_Witness ==
    /\ call.op = "checkEmpty"
    /\ Len(call.resultList) >= 3
    /\ Len(call.resultList[1]) > 0
    /\ Len(ret.frameStamps) = 2

---------------------------------------------------------------------------
(* visualiseAll *)

\* the drawing calls made for box i
DrawnOn(image, i) == {k \in 1..Len(image) : image[k].box = i}

\* box i carries a marker (the two lines of a cross) and its label
Marked(image, i, label) ==
    /\ Cardinality({k \in DrawnOn(image, i) : image[k].fn = "line"}) = 2
    /\ \E k \in DrawnOn(image, i) : image[k].fn = "putText" /\ image[k].text = <<label>>

\* C7: annotateAll completes for every result whose class indices all have a
\* catalog entry, class indices of 10 or more included: it draws a marker
\* and a label on every box and returns the InventoryCount of the result
\* with a total equal to the sum of the counts and to the number of boxes.
C7_AnnotateAllCompletes ==
    (call.op = "visualiseAll" /\ AllKnown(call.analysis)) =>
        /\ ret.status = "ok"
        /\ \A i \in Boxes(call.analysis) :
             Marked(ret.image, i, classNames[call.analysis[i]])
        /\ ret.items = count(classNames, call.analysis).value
        /\ ret.count = Sum(ret.items)
        /\ ret.count = Len(call.analysis)

---------------------------------------------------------------------------
(* visualiseSpecificItem *)

\* the banners of an image
Banners(image) == {k \in 1..Len(image) : image[k].box = 0}

\* C8: annotateItem returns found = true if and only if some box resolves to
\* the target name; it draws a marker and label on exactly the boxes that
\* resolve to the target name, and adds exactly one banner, 'found' when
\* found and 'not found' otherwise; when no box matches, that banner is the
\* only annotation.
C8_AnnotateItem ==
    (call.op = "visualiseSpecificItem" /\ ret.status = "ok") =>
        LET cls == call.analysis
            target == call.itemName
            matching == {i \in Boxes(cls) : ResolvesTo(cls, i, target)}
        IN  /\ ret.found <=> (matching # {})
            /\ \A i \in matching : Marked(ret.image, i, target)
            /\ \A i \in Boxes(cls) \ matching : DrawnOn(ret.image, i) = {}
            /\ Cardinality(Banners(ret.image)) = 1
            /\ \A k \in Banners(ret.image) :
                 /\ ret.image[k].fn = "putText"
                 /\ ret.image[k].text =
                      <<"Object Detection: ", target,
                        IF ret.found THEN " found" ELSE " not found">>
            /\ Len(ret.image) = 3 * Cardinality(matching) + 1
            /\ (matching = {} => Len(ret.image) = 1)

\* C8's case: some boxes resolve to the target name and another does not
C8_Witness ==
    /\ call.op = "visualiseSpecificItem"
    /\ ret.status = "ok"
    /\ ret.found
    /\ Cardinality({i \in Boxes(call.analysis) :
                      ResolvesTo(call.analysis, i, call.itemName)}) = 2
    /\ Len(call.analysis) = 3

---------------------------------------------------------------------------
(* saveObjectLocations *)

\* the (color, className) pairs that occur among the boxes of a result
Pairs(cls) ==
    {<<COLORS[cls[i]], classNames[cls[i]]>> :
        i \in {j \in Boxes(cls) : cls[j] \in DOMAIN COLORS /\ cls[j] \in DOMAIN classNames}}

\* C9: the legend saveSnapshot draws has exactly one row for each distinct
\* (color, className) pair that occurs among the boxes, however many boxes
\* share it, and no row for any other pair; the number of rows equals the
\* number of distinct pairs.
C9_LegendOneRowPerPair ==
    (call.op = "saveObjectLocations" /\ ret.status = "ok") =>
        LET legend == ret.legend
        IN  /\ {<<legend[r].color, legend[r].name>> : r \in 1..Len(legend)}
                 = Pairs(call.analysis)
            /\ Len(legend) = Cardinality(Pairs(call.analysis))
            /\ \A r \in 1..Len(legend) : legend[r].y = 10 + (r - 1) * 14

\* C9's case: two boxes share a pair and a third box has another
C9_Witness ==
    /\ call.op = "saveObjectLocations"
    /\ ret.status = "ok"
    /\ Len(call.analysis) = 3
    /\ Len(ret.legend) = 2

---------------------------------------------------------------------------
(* updateSpecificItemFrames *)

\* the item is found in frame i of the list
FoundIn(resultList, i, itemName) ==
    \E b \in Boxes(resultList[i]) : ResolvesTo(resultList[i], b, itemName)

\* the positions at which the item is not found while it was found in the
\* frame just before
Removals(resultList, itemName) ==
    {i \in 2..Len(resultList) :
        ~FoundIn(resultList, i, itemName) /\ FoundIn(resultList, i - 1, itemName)}

\* C10: updateSpecificItemFrames returns the number of times the item has
\* been removed: the number of positions at which the item is not found
\* while it was found in the frame just before.
C10_CountsRemovals ==
    call.op = "updateSpecificItemFrames" =>
        /\ ret.status = "ok"
        /\ ret.count = Cardinality(Removals(call.resultList, call.itemName))

=============================================================================
